---- MODULE Spec2Model ----
(***************************************************************************)
(* lint-roller-markdown-api-history: the block extraction and validation   *)
(* pipeline of bin/lint-markdown-api-history.ts (init, main,               *)
(* getAllPrReleaseVersions), as a state machine.                           *)
(*                                                                         *)
(* Strings of the program are sequences of one-character strings, so that  *)
(* toLowerCase, trim and the regular expressions are computed.  The three  *)
(* parsers (hast-util-from-html, mdast-util-from-markdown, yaml) and the   *)
(* schema validator are libraries: a candidate block carries what each of  *)
(* them returns for it.                                                    *)
(***************************************************************************)
EXTENDS Integers, Sequences, FiniteSets, TLC

VARIABLES
    pc,                       \* position of init/main
    opts,                     \* the parsed command line
    env,                      \* process.env and the network
    docsTotal,                \* length of workspace.getAllMarkdownDocuments()
    docIdx,                   \* documents taken from the iterator so far
    blocksInDoc,              \* possibleHistoryBlocks.length of the current document
    blockIdx,                 \* blocks of the current document taken so far
    located,                  \* blocks returned by findPossibleApiHistoryBlocks so far
    documentCounter,
    historyBlockCounter,
    errorCounter,
    warningCounter,
    validateAgainstSchema,    \* TRUE once ajv.compile has returned a validator
    breakingChangesFileHeadingIds,
    allPrReleaseVersions,     \* the module-level _allPrReleaseVersions
    acquisitions,             \* times the PR release index was fetched or synthesized
    last,                     \* possibleHistoryBlock of the latest iteration, with its outcome
    thrown,                   \* main's catch-all handler has run
    stdout,                   \* lines written by console.log in init
    exitStatus,               \* -1 while the process runs
    tree,                     \* fromMarkdown(content) in findPossibleApiHistoryBlocks
    codeBlocks,               \* the array findPossibleApiHistoryBlocks fills and returns
    markdownBreakingChanges,  \* children of fromMarkdown(breakingChanges), the companion document
    str,                      \* findCurlyBracedDirectives: the text it scans
    idx,                      \* findCurlyBracedDirectives: where the next search starts
    matches,                  \* findCurlyBracedDirectives: the array it fills and returns
    tokens,                   \* EMD004: the tokens of params
    tokenIdx,                 \* EMD004: tokens visited so far
    onError,                  \* EMD004: the line numbers of the errors reported so far
    filenames,                \* chunkFilenames: its first argument
    offset,                   \* chunkFilenames: its second argument
    platform,                 \* chunkFilenames: os.platform()
    chunkedFilenames          \* chunkFilenames: the array it returns

vars == <<pc, opts, env, docsTotal, docIdx, blocksInDoc, blockIdx, located,
          documentCounter, historyBlockCounter, errorCounter, warningCounter,
          validateAgainstSchema, breakingChangesFileHeadingIds,
          allPrReleaseVersions, acquisitions, last, thrown, stdout, exitStatus,
          tree, codeBlocks, markdownBreakingChanges,
          str, idx, matches, tokens, tokenIdx, onError,
          filenames, offset, platform, chunkedFilenames>>

\* The variables of findPossibleApiHistoryBlocks, and those of init and main.
locatorVars == <<tree, codeBlocks>>

\* The variables of findCurlyBracedDirectives, EMD004 and chunkFilenames.
directiveVars == <<str, idx, matches>>
ruleVars == <<tokens, tokenIdx, onError>>
chunkVars == <<filenames, offset, platform, chunkedFilenames>>
libVars == <<directiveVars, ruleVars, chunkVars>>

mainVars == <<pc, opts, env, docsTotal, docIdx, blocksInDoc, blockIdx, located,
              documentCounter, historyBlockCounter, errorCounter, warningCounter,
              validateAgainstSchema, breakingChangesFileHeadingIds,
              allPrReleaseVersions, acquisitions, last, thrown, stdout, exitStatus>>

-----------------------------------------------------------------------------
(* Bounds *)

MaxDocs == 2
MaxBlocks == 2

-----------------------------------------------------------------------------
(* Strings *)

Undefined == <<"undefined">>

UpperToLower ==
    [c \in {"Y", "A", "M", "L", "H", "I", "S", "T", "O", "R", "D", "B"} |->
        CASE c = "Y" -> "y" [] c = "A" -> "a" [] c = "M" -> "m" [] c = "L" -> "l"
          [] c = "H" -> "h" [] c = "I" -> "i" [] c = "S" -> "s" [] c = "T" -> "t"
          [] c = "O" -> "o" [] c = "R" -> "r" [] c = "D" -> "d" [] c = "B" -> "b"]

ToLowerCase(s) ==
    [i \in 1..Len(s) |-> IF s[i] \in DOMAIN UpperToLower THEN UpperToLower[s[i]] ELSE s[i]]

RECURSIVE TrimStart(_)
TrimStart(s) ==
    IF s = <<>> THEN s
    ELSE IF Head(s) = " " THEN TrimStart(Tail(s)) ELSE s

RECURSIVE TrimEnd(_)
TrimEnd(s) ==
    IF s = <<>> THEN s
    ELSE IF s[Len(s)] = " " THEN TrimEnd(SubSeq(s, 1, Len(s) - 1)) ELSE s

Trim(s) == TrimEnd(TrimStart(s))

yaml == <<"y", "a", "m", "l">>
history == <<"h", "i", "s", "t", "o", "r", "y">>


Digits == {"0", "1", "2", "3", "4", "5", "6", "7", "8", "9"}
LowerCase == {"a", "b", "d", "e", "h", "i", "l", "m", "o", "p", "r", "s", "t", "u", "y"}
UpperCase == DOMAIN UpperToLower
AlphaNumeric == Digits \cup LowerCase \cup UpperCase

DigitValue ==
    [c \in Digits |->
        CASE c = "0" -> 0 [] c = "1" -> 1 [] c = "2" -> 2 [] c = "3" -> 3 [] c = "4" -> 4
          [] c = "5" -> 5 [] c = "6" -> 6 [] c = "7" -> 7 [] c = "8" -> 8 [] c = "9" -> 9]

NaN == -1

\* Number(str) for the strings of the model: decimal digits give their value,
\* the empty string gives 0, anything else gives NaN.
RECURSIVE NumberFrom(_, _)
NumberFrom(s, acc) ==
    IF s = <<>> THEN acc
    ELSE IF Head(s) \in Digits THEN NumberFrom(Tail(s), acc * 10 + DigitValue[Head(s)])
    ELSE NaN

Number(s) == NumberFrom(s, 0)

-----------------------------------------------------------------------------
(* Inputs *)

\* Outcome of access()/readFile()/parse for a file named on the command line.
FileStates == {"none", "missing", "unparsable", "ok"}

Options ==
    [checkPlacement : BOOLEAN,
     checkPullRequestLinks : BOOLEAN,
     checkStrings : BOOLEAN,
     schema : FileStates,
     breakingChangesFile : FileStates]

CiPr == <<"4", "0">>

\* NODE_ENV === 'test', GH_TOKEN set, the artifact fetch succeeds, and the
\* pull request number getCIPrNumber() reads from the CI variables (0: none).
Environments ==
    { [test |-> TRUE, ghToken |-> FALSE, fetchOk |-> FALSE, ciPrNumber |-> 0],
      [test |-> FALSE, ghToken |-> TRUE, fetchOk |-> TRUE, ciPrNumber |-> Number(CiPr)],
      [test |-> FALSE, ghToken |-> TRUE, fetchOk |-> FALSE, ciPrNumber |-> 0],
      [test |-> FALSE, ghToken |-> FALSE, fetchOk |-> FALSE, ciPrNumber |-> 0] }

\* The environment is read by getAllPrReleaseVersions and by init's GH_TOKEN
\* check only, both behind --check-pull-request-links.
EnvironmentsOf(o) ==
    IF o.checkPullRequestLinks THEN Environments
    ELSE { [test |-> TRUE, ghToken |-> FALSE, fetchOk |-> FALSE, ciPrNumber |-> 0] }

\* Keys of the index getAllPrReleaseVersions synthesizes in test mode.
TestPrs == {22533, 26789, 37094}

\* Keys of parsedData.data in the downloaded artifact.
ArtifactPrs == {22533, 1337}

Pr22533 == << <<"p", "u", "l", "l">>, <<"2", "2", "5", "3", "3">> >>
Pr1337 == << <<"p", "u", "l", "l">>, <<"1", "3", "3", "7">> >>
Pr40 == << <<"p", "u", "l", "l">>, CiPr >>

HeaderKnown == <<"d", "-", "b", "s">>
HeaderMissing == <<"D", " ", "b">>

Change(url, header) == [prUrl |-> url, header |-> header]

EmptyHistory == [added |-> <<>>, changes |-> <<>>, deprecated |-> <<>>]

\* Decoded histories that match the schema (a missing array is the empty one,
\* which is what `?? []` and `?.forEach` make of it).
Histories ==
    { EmptyHistory,
      [EmptyHistory EXCEPT !.added = <<Change(Pr22533, Undefined)>>],
      [EmptyHistory EXCEPT !.added = <<Change(Pr1337, HeaderMissing)>>],
      [EmptyHistory EXCEPT !.changes = <<Change(Pr22533, HeaderKnown)>>],
      [EmptyHistory EXCEPT !.changes = <<Change(Pr40, HeaderMissing)>>,
                           !.deprecated = <<Change(Pr1337, HeaderMissing)>>],
      [EmptyHistory EXCEPT !.added = <<Change(Pr22533, Undefined)>>,
                           !.deprecated = <<Change(Pr22533, HeaderKnown)>>],
      [EmptyHistory EXCEPT !.changes = <<Change(Pr22533, <<>>)>>,
                           !.deprecated = <<Change(Pr1337, HeaderMissing)>>] }

\* Capture groups of possibleStringRegex in a block's YAML text.
PlainValue == <<"a", "b">>
SuspiciousValue == <<"$", "a">>

ValueLists == { <<PlainValue>>, <<PlainValue, SuspiciousValue>> }

PreviousNodes == {"none", "heading", "paragraph"}

YAML == <<"Y", "A", "M", "L">>

DefaultBlock ==
    [htmlFirst |-> "comment", mdFirst |-> "code", lang |-> YAML, meta |-> history,
     strings |-> <<PlainValue>>, previousNode |-> "heading",
     yamlThrows |-> FALSE, schemaValid |-> TRUE,
     history |-> [EmptyHistory EXCEPT !.added = <<Change(Pr22533, Undefined)>>]]

\* Blocks that differ in what the two re-parses of the extractor return.
ShapeBlocks ==
    { [DefaultBlock EXCEPT !.htmlFirst = "element"],
      [DefaultBlock EXCEPT !.mdFirst = "none"],
      [DefaultBlock EXCEPT !.mdFirst = "paragraph"],
      [DefaultBlock EXCEPT !.lang = <<"y", "m", "l">>],
      [DefaultBlock EXCEPT !.meta = <<"H", "i", "s", "t", "o", "r", "y">>],
      [DefaultBlock EXCEPT !.meta = <<"H", "I", "S", "T", "O", "R", "Y">>],
      [DefaultBlock EXCEPT !.lang = yaml, !.meta = Undefined],
      [DefaultBlock EXCEPT !.lang = Undefined, !.meta = Undefined],
      [DefaultBlock EXCEPT !.lang = yaml, !.meta = history \o <<" ">>],
      [DefaultBlock EXCEPT !.lang = <<"Y", "a", "m", "l">>] }

\* Blocks the extractor accepts, which differ in what the validators see.
Contents ==
    { [DefaultBlock EXCEPT !.yamlThrows = TRUE, !.schemaValid = FALSE, !.history = EmptyHistory],
      [DefaultBlock EXCEPT !.schemaValid = FALSE, !.history = EmptyHistory] }
    \cup { [DefaultBlock EXCEPT !.history = h] : h \in Histories }
    \cup { [DefaultBlock EXCEPT !.previousNode = p] : p \in PreviousNodes }

FencedBlocks == { [c EXCEPT !.strings = s] : c \in Contents, s \in ValueLists }

Blocks == ShapeBlocks \cup FencedBlocks

\* The blocks of the documents of a corpus of several documents: one block
\* for each way an iteration of the loop over the blocks can end.
CorpusBlocks ==
    { DefaultBlock,
      [DefaultBlock EXCEPT !.strings = <<PlainValue, SuspiciousValue>>],
      [DefaultBlock EXCEPT !.htmlFirst = "element"],
      [DefaultBlock EXCEPT !.mdFirst = "none"],
      [DefaultBlock EXCEPT !.lang = <<"y", "m", "l">>],
      [DefaultBlock EXCEPT !.previousNode = "none"],
      [DefaultBlock EXCEPT !.yamlThrows = TRUE, !.schemaValid = FALSE, !.history = EmptyHistory],
      [DefaultBlock EXCEPT !.history.changes = <<Change(Pr1337, HeaderMissing)>>] }

\* Lines of the text of a code block, for the string check.
YamlLines ==
    { <<"a", "d", "d", "e", "d", ":">>,
      <<"-", " ", "a">>,
      <<"a", ":", " ", "b">>,
      <<"a", ":", " ", "a", "b">>,
      <<"a", ":", "a", "b">>,
      <<" ", "-", " ", "a", ":", " ", "h", ":", "/", "/", "a", ".", "b", "/", "1">>,
      <<"a", ":", " ", "$", "a">>,
      <<"a", ":", " ", "a", "$">>,
      <<"a", ":", " ", "a", "$", " ">>,
      <<"a", ":", " ", ".", "a">>,
      <<"a", ":", " ", "a", ".", " ">>,
      <<"a", ":", " ", "a", "b", ":">>,
      <<"a", ":", " ", "\"", "$", "\"">>,
      <<"a", ":", " ", "'", "$", ":", "'">>,
      <<"a", ":", " ", "\"", "a", "'">>,
      <<"a", ":", " ", "'", "a">>,
      <<"a", ":", " ", "\"", " ">> }

\* Texts of one line, and some of two.
YamlTexts ==
    { <<l>> : l \in YamlLines }
    \cup { << <<"a", ":", " ", "a", "b", ":">>, l >> :
             l \in { <<"a", "d", "d", "e", "d", ":">>,
                     <<"a", ":", " ", "$", "a">>,
                     <<"a", ":", " ", "\"", "$", "\"">> } }

\* The children of the breaking-changes companion document: headings with
\* the values of their children, and other nodes.
Heading(depth, values) == [type |-> "heading", depth |-> depth, children |-> values]

BreakingChangesDocument ==
    << Heading(1, << <<"B">> >>),
       Heading(3, << <<"D", ":", " ">>, <<"B", ".", "s">> >>),
       [type |-> "paragraph", depth |-> 0, children |-> <<>>],
       Heading(2, << <<"d", "-", "b">> >>),
       Heading(3, << <<"D", " ", "b", "!">> >>) >>

-----------------------------------------------------------------------------
(* findPossibleApiHistoryBlocks *)

MaxChildren == 2

Node(type, value, children) == [type |-> type, value |-> value, children |-> children]

\* The grave accent, which a string of TLA+ cannot hold.
GraveAccent == "U+0060"

fence == <<GraveAccent, GraveAccent, GraveAccent>>

\* Texts of html (and code) nodes.
YamlHistory == fence \o yaml \o <<" ">> \o history
UpperYamlHistory == fence \o YAML \o <<" ", "H", "I", "S", "T", "O", "R", "Y">>
YmlHistoryAfterYaml == yaml \o <<" ">> \o fence \o <<"y", "m", "l", " ">> \o history
YmlHistory == fence \o <<"y", "m", "l", " ">> \o history
ShortFenceYamlHistory == <<GraveAccent, GraveAccent>> \o yaml \o <<" ">> \o history
YamlOnly == fence \o yaml

HtmlValues ==
    {YamlHistory, UpperYamlHistory, YmlHistoryAfterYaml, YmlHistory, ShortFenceYamlHistory,
     YamlOnly}

HeadingNode == Node("heading", <<>>, <<>>)
ParagraphNode == Node("paragraph", <<>>, <<>>)

\* Children of the root: leaves, and containers that hold html nodes one and
\* two levels down.
TopNodes ==
    { HeadingNode, ParagraphNode, Node("code", YamlHistory, <<>>) }
    \cup { Node("html", v, <<>>) : v \in HtmlValues }
    \cup { Node("blockquote", <<>>, <<HeadingNode, Node("html", YamlHistory, <<>>)>>),
           Node("blockquote", <<>>, <<Node("html", UpperYamlHistory, <<>>), ParagraphNode>>),
           Node("list", <<>>,
                <<Node("listItem", <<>>,
                       <<ParagraphNode, Node("html", YmlHistory, <<>>),
                         Node("html", YmlHistoryAfterYaml, <<>>)>>)>>) }

RECURSIVE SeqsUpTo(_, _)
SeqsUpTo(S, n) ==
    IF n = 0 THEN { <<>> }
    ELSE LET shorter == SeqsUpTo(S, n - 1)
         IN  shorter \cup { Append(q, x) : q \in shorter, x \in S }

Trees == { Node("root", <<>>, c) : c \in SeqsUpTo(TopNodes, MaxChildren) }

\* value.includes(sub)
StringIncludes(value, sub) ==
    \E i \in 1..(Len(value) - Len(sub) + 1) : SubSeq(value, i, i + Len(sub) - 1) = sub

IsPossibleHistoryBlockCaseSensitive(node) ==
    /\ node.type = "html"
    /\ StringIncludes(node.value, fence)
    /\ StringIncludes(node.value, yaml)
    /\ StringIncludes(node.value, history)

\* The test given to visit.
IsPossibleHistoryBlock(node) ==
    /\ node.type = "html"
    /\ StringIncludes(ToLowerCase(node.value), fence)
    /\ StringIncludes(ToLowerCase(node.value), yaml)
    /\ StringIncludes(ToLowerCase(node.value), history)

NoNode == Node("undefined", <<>>, <<>>)

\* array[i] of JavaScript for the array's elements numbered from 1.
At(array, i) == IF i \in 1..Len(array) THEN array[i] ELSE NoNode

\* The visitor: a copy of the node with root.children[index - 1] as its
\* previous node, whichever node is the parent of the visited one.
ShallowNodeCopy(root, node, index) ==
    [type |-> node.type, value |-> node.value, previousNode |-> At(root.children, index - 1)]

\* visit(tree, test, visitor): the nodes in document order, parents first.
RECURSIVE VisitNode(_, _, _)
RECURSIVE VisitChildren(_, _, _)
VisitNode(root, node, index) ==
    (IF IsPossibleHistoryBlock(node) THEN <<ShallowNodeCopy(root, node, index)>> ELSE <<>>)
    \o VisitChildren(root, node, 1)

VisitChildren(root, parent, i) ==
    IF i > Len(parent.children) THEN <<>>
    ELSE VisitNode(root, parent.children[i], i) \o VisitChildren(root, parent, i + 1)

FindPossibleApiHistoryBlocks(root) == VisitChildren(root, root, 1)

-----------------------------------------------------------------------------
(* main: the breaking-changes heading ids *)

ReplaceSpaces(s) == [i \in 1..Len(s) |-> IF s[i] = " " THEN "-" ELSE s[i]]

RECURSIVE StripNonIdChars(_)
StripNonIdChars(s) ==
    IF s = <<>> THEN <<>>
    ELSE IF Head(s) \in AlphaNumeric \cup {"-"}
         THEN <<Head(s)>> \o StripNonIdChars(Tail(s))
         ELSE StripNonIdChars(Tail(s))

GitHubIdKeepingCase(value) == StripNonIdChars(ReplaceSpaces(value))

GitHubId(value) == StripNonIdChars(ReplaceSpaces(ToLowerCase(value)))

RECURSIVE HeadingId(_)
HeadingId(values) ==
    IF values = <<>> THEN <<>>
    ELSE HeadingId(SubSeq(values, 1, Len(values) - 1)) \o GitHubId(values[Len(values)])

IsIndexedHeading(node) == node.type = "heading" /\ node.depth = 3

RECURSIVE HeadingIds(_)
HeadingIds(children) ==
    IF children = <<>> THEN <<>>
    ELSE IF IsIndexedHeading(Head(children))
         THEN <<HeadingId(Head(children).children)>> \o HeadingIds(Tail(children))
         ELSE HeadingIds(Tail(children))

Includes(seq, x) == \E i \in 1..Len(seq) : seq[i] = x

\* Top-level nodes of a companion document: headings of depth 2, 3 and 4, of
\* none, one and two children, and a paragraph.
HeadingNodes ==
    { Heading(3, << <<"D", " ", "b", "!">> >>),
      Heading(3, << <<"D", ":", " ">>, <<"B", ".", "1">> >>),
      Heading(3, <<>>),
      Heading(2, << <<"d", "-", "b">> >>),
      Heading(4, << <<"D">> >>),
      [type |-> "paragraph", depth |-> 0, children |-> <<>>] }

HeadingDocuments == SeqsUpTo(HeadingNodes, MaxChildren)

-----------------------------------------------------------------------------
(* main: one iteration of the loop over possibleHistoryBlocks *)

\* What one iteration has done so far: `go` is FALSE once the iteration has
\* ended (continue, an exception, or process.exit).
NewResult ==
    [go |-> TRUE, errors |-> 0, warnings |-> 0, stages |-> <<>>, diags |-> <<>>,
     thrown |-> FALSE, exit |-> FALSE, index |-> allPrReleaseVersions, acquired |-> 0]

Enter(r, stage) == [r EXCEPT !.stages = Append(@, stage)]
Error(r, kind) == [r EXCEPT !.errors = @ + 1, !.diags = Append(@, kind)]
Warning(r, kind) == [r EXCEPT !.warnings = @ + 1, !.diags = Append(@, kind)]
Continue(r) == [r EXCEPT !.go = FALSE]
\* An exception leaves the loops for main's catch-all handler, which counts
\* one error and reports it.
Throw(r) ==
    [r EXCEPT !.go = FALSE, !.thrown = TRUE, !.errors = @ + 1, !.diags = Append(@, "linting")]
ExitThroughCatchAll(r) ==
    [r EXCEPT !.go = FALSE, !.thrown = TRUE, !.errors = @ + 1, !.diags = Append(@, "linting")]

Exit(r) == [r EXCEPT !.go = FALSE, !.exit = TRUE]

HtmlStage(r, b) ==
    IF b.htmlFirst # "comment" THEN Continue(Enter(r, "html")) ELSE Enter(r, "html")

OptionalLower(s) == IF s = Undefined THEN Undefined ELSE ToLowerCase(s)
OptionalTrim(s) == IF s = Undefined THEN Undefined ELSE Trim(s)


FormatMismatchIgnoringMeta(b) ==
    \/ b.mdFirst # "code"
    \/ OptionalLower(b.lang) # yaml

FormatMismatchCaseSensitive(b) ==
    \/ b.mdFirst # "code"
    \/ b.lang # yaml
    \/ OptionalTrim(b.meta) # history

FormatMismatchIgnoringCase(b) ==
    \/ b.mdFirst # "code"
    \/ OptionalLower(b.lang) # yaml
    \/ OptionalLower(OptionalTrim(b.meta)) # history

FormatMismatch(b) ==
    \/ b.mdFirst # "code"
    \/ OptionalLower(b.lang) # yaml
    \/ OptionalTrim(b.meta) # history

MarkdownStage(r, b) ==
    IF ~r.go THEN r
    ELSE IF b.mdFirst = "none" THEN Throw(Enter(r, "markdown"))
    ELSE IF FormatMismatch(b) THEN Continue(Error(Enter(r, "markdown"), "format"))
    ELSE Enter(r, "markdown")

IsInsideQuotes(t) ==
    \/ Head(t) = "\"" /\ t[Len(t)] = "\""
    \/ Head(t) = "'" /\ t[Len(t)] = "'"

NonAlphaNumeric(c) == c \notin AlphaNumeric

NonAlphaNumericDot(c) == c \notin AlphaNumeric \cup {"."}

IsSuspicious(matchedGroup) ==
    LET t == Trim(matchedGroup)
    IN  /\ ~IsInsideQuotes(t)
        /\ NonAlphaNumericDot(Head(t)) \/ NonAlphaNumericDot(t[Len(t)])

RECURSIVE CheckStrings(_, _)
CheckStrings(r, groups) ==
    IF groups = <<>> THEN r
    ELSE CheckStrings(IF IsSuspicious(Head(groups)) THEN Warning(r, "string") ELSE r,
                      Tail(groups))

\* possibleStringRegex on one line of the code block's text: the key ends at
\* the first colon after which, the spaces skipped, at least two characters
\* are left; these are the matched group. No line of the model holds
\* whitespace other than the space.
RECURSIVE MatchFrom(_, _)
MatchFrom(line, i) ==
    IF i > Len(line) THEN <<>>
    ELSE LET group == TrimStart(SubSeq(line, i + 1, Len(line)))
         IN  IF line[i] = ":" /\ Len(group) >= 2 THEN <<group>>
             ELSE MatchFrom(line, i + 1)

\* codeBlock.value.matchAll(possibleStringRegex): the matched groups of the
\* lines of the text, in order.
RECURSIVE MatchAll(_)
MatchAll(lines) ==
    IF lines = <<>> THEN <<>>
    ELSE MatchFrom(Head(lines), 2) \o MatchAll(Tail(lines))

\* Valid blocks that differ in the text of their code block only.
StringBlocks == { [DefaultBlock EXCEPT !.strings = MatchAll(t)] : t \in YamlTexts }

StringStage(r, b) ==
    IF ~r.go \/ ~opts.checkStrings THEN r
    ELSE CheckStrings(Enter(r, "strings"), b.strings)


MisplacedBlockAbsentOnly(b) == b.previousNode = "none"

MisplacedBlock(b) == b.previousNode = "none" \/ b.previousNode # "heading"


PlacementStageFallingThrough(r, b) ==
    IF ~r.go \/ ~opts.checkPlacement THEN r
    ELSE IF MisplacedBlock(b) THEN Error(Enter(r, "placement"), "placement")
    ELSE Enter(r, "placement")

PlacementStage(r, b) ==
    IF ~r.go \/ ~opts.checkPlacement THEN r
    ELSE IF MisplacedBlock(b) THEN Continue(Error(Enter(r, "placement"), "placement"))
    ELSE Enter(r, "placement")


YamlStageFallingThrough(r, b) ==
    IF ~r.go THEN r
    ELSE IF b.yamlThrows THEN Error(Enter(r, "yaml"), "yaml")
    ELSE Enter(r, "yaml")

YamlStage(r, b) ==
    IF ~r.go THEN r
    ELSE IF b.yamlThrows THEN Continue(Error(Enter(r, "yaml"), "yaml"))
    ELSE Enter(r, "yaml")


SchemaStageOptional(r, b) ==
    IF ~r.go THEN r
    ELSE IF opts.schema = "none" \/ ~validateAgainstSchema THEN r
    ELSE IF ~b.schemaValid THEN Continue(Error(Enter(r, "schema"), "schema"))
    ELSE Enter(r, "schema")

SchemaStageFallingThrough(r, b) ==
    IF ~r.go THEN r
    ELSE IF opts.schema = "none" \/ ~validateAgainstSchema THEN Continue(r)
    ELSE IF ~b.schemaValid THEN Error(Enter(r, "schema"), "schema")
    ELSE Enter(r, "schema")

SchemaStage(r, b) ==
    IF ~r.go THEN r
    ELSE IF opts.schema = "none" \/ ~validateAgainstSchema THEN Continue(r)
    ELSE IF ~b.schemaValid THEN Continue(Error(Enter(r, "schema"), "schema"))
    ELSE Enter(r, "schema")

RECURSIVE BreakingChangeHeaders(_)
BreakingChangeHeaders(changes) ==
    IF changes = <<>> THEN <<>>
    ELSE IF Head(changes).header # Undefined /\ Head(changes).header # <<>>
         THEN <<Head(changes).header>> \o BreakingChangeHeaders(Tail(changes))
         ELSE BreakingChangeHeaders(Tail(changes))

RECURSIVE CheckHeaders(_, _)
CheckHeaders(r, headers) ==
    IF headers = <<>> THEN r
    ELSE CheckHeaders(IF ~Includes(breakingChangesFileHeadingIds.ids, Head(headers))
                      THEN Error(r, "breaking") ELSE r,
                      Tail(headers))

BreakingChangesStageWithAdded(r, b) ==
    IF ~r.go THEN r
    ELSE IF opts.breakingChangesFile = "none" \/ ~breakingChangesFileHeadingIds.set THEN r
    ELSE CheckHeaders(Enter(r, "breaking"),
                      BreakingChangeHeaders(b.history.added \o b.history.changes
                                            \o b.history.deprecated))

BreakingChangesStage(r, b) ==
    IF ~r.go THEN r
    ELSE IF opts.breakingChangesFile = "none" \/ ~breakingChangesFileHeadingIds.set THEN r
    ELSE CheckHeaders(Enter(r, "breaking"),
                      BreakingChangeHeaders(b.history.changes \o b.history.deprecated))

-----------------------------------------------------------------------------
(* getAllPrReleaseVersions *)

NoIndex == [set |-> FALSE, keys |-> {}]

WithCiPr(keys) == IF env.ciPrNumber # 0 THEN keys \cup {env.ciPrNumber} ELSE keys

GetAllPrReleaseVersionsForgettingCiPr(cache) ==
    IF cache.set
    THEN [ok |-> TRUE, index |-> [cache EXCEPT !.keys = @ \ {env.ciPrNumber}], acquired |-> 0]
    ELSE IF env.test
         THEN [ok |-> TRUE, index |-> [set |-> TRUE, keys |-> WithCiPr(TestPrs)], acquired |-> 1]
    ELSE IF ~env.ghToken \/ ~env.fetchOk
         THEN [ok |-> FALSE, index |-> cache, acquired |-> 0]
    ELSE [ok |-> TRUE, index |-> [set |-> TRUE, keys |-> WithCiPr(ArtifactPrs)], acquired |-> 1]

GetAllPrReleaseVersionsNotMemoized(cache) ==
    IF env.test
    THEN [ok |-> TRUE, index |-> [set |-> TRUE, keys |-> WithCiPr(TestPrs)], acquired |-> 1]
    ELSE IF ~env.ghToken \/ ~env.fetchOk
         THEN [ok |-> FALSE, index |-> cache, acquired |-> 0]
    ELSE [ok |-> TRUE, index |-> [set |-> TRUE, keys |-> WithCiPr(ArtifactPrs)], acquired |-> 1]

\* ok = FALSE: the catch handler of getAllPrReleaseVersions calls process.exit(1).
GetAllPrReleaseVersions(cache) ==
    IF cache.set THEN [ok |-> TRUE, index |-> cache, acquired |-> 0]
    ELSE IF env.test
         THEN [ok |-> TRUE, index |-> [set |-> TRUE, keys |-> WithCiPr(TestPrs)], acquired |-> 1]
    ELSE IF ~env.ghToken \/ ~env.fetchOk
         THEN [ok |-> FALSE, index |-> cache, acquired |-> 0]
    ELSE [ok |-> TRUE, index |-> [set |-> TRUE, keys |-> WithCiPr(ArtifactPrs)], acquired |-> 1]

\* change['pr-url'].split('/').at(-1)
RECURSIVE LastSegments(_)
LastSegments(changes) ==
    IF changes = <<>> THEN <<>>
    ELSE <<Head(changes).prUrl[Len(Head(changes).prUrl)]>> \o LastSegments(Tail(changes))

PrsInHistoryWithoutDeprecated(h) == LastSegments(h.added) \o LastSegments(h.changes)

PrsInHistory(h) == LastSegments(h.added) \o LastSegments(h.changes) \o LastSegments(h.deprecated)

RECURSIVE CheckPrs(_, _)
CheckPrs(r, prs) ==
    IF prs = <<>> THEN r
    ELSE CheckPrs(IF Number(Head(prs)) \notin r.index.keys THEN Warning(r, "pr") ELSE r,
                  Tail(prs))

PullRequestStage(r, b) ==
    IF ~r.go \/ ~opts.checkPullRequestLinks THEN r
    ELSE LET got == GetAllPrReleaseVersions(r.index)
         IN  IF ~got.ok THEN Exit(Enter(r, "pr"))
             ELSE CheckPrs([Enter(r, "pr") EXCEPT !.index = got.index,
                                                  !.acquired = got.acquired],
                           PrsInHistory(b.history))

RunBlockStringsAfterYaml(b) ==
    PullRequestStage(
      BreakingChangesStage(
        SchemaStage(
          StringStage(
            YamlStage(
              PlacementStage(
                MarkdownStage(
                  HtmlStage(NewResult, b), b), b), b), b), b), b), b)

RunBlock(b) ==
    PullRequestStage(
      BreakingChangesStage(
        SchemaStage(
          YamlStage(
            PlacementStage(
              StringStage(
                MarkdownStage(
                  HtmlStage(NewResult, b), b), b), b), b), b), b), b)

-----------------------------------------------------------------------------
(* The description check of --check-descriptions *)

description == <<"d", "e", "s", "c", "r", "i", "p", "t", "i", "o", "n">>

EndsWith(s, suffix) ==
    /\ Len(s) >= Len(suffix)
    /\ SubSeq(s, Len(s) - Len(suffix) + 1, Len(s)) = suffix

\* The value of a line `<key ending in "description">: <value>`.
RECURSIVE MatchDescriptionFrom(_, _)
MatchDescriptionFrom(line, i) ==
    IF i > Len(line) THEN <<>>
    ELSE LET group == TrimStart(SubSeq(line, i + 1, Len(line)))
         IN  IF /\ line[i] = ":"
                /\ EndsWith(SubSeq(line, 1, i - 1), description)
                /\ group # <<>>
             THEN <<group>>
             ELSE MatchDescriptionFrom(line, i + 1)

RECURSIVE MatchDescriptions(_)
MatchDescriptions(lines) ==
    IF lines = <<>> THEN <<>>
    ELSE MatchDescriptionFrom(Head(lines), 2) \o MatchDescriptions(Tail(lines))

DescriptionLines ==
    { description \o <<":", " ", "\"", "a", ":", "\"">>,
      description \o <<":", " ", "'", "a", "b", "'", " ">>,
      description \o <<":", " ", "a", "b">>,
      description \o <<":", " ", "a", "b", ":">>,
      description \o <<":", " ", "\"", "a", "b">>,
      <<"b", "-">> \o description \o <<":", " ", "a", "b">>,
      <<"a", ":", " ", "a", "b">>,
      description \o <<"s", ":", " ", "a", "b">> }

DescriptionTexts ==
    { <<l>> : l \in DescriptionLines }
    \cup { <<description \o <<":", " ", "a", "b">>, l>> :
             l \in { description \o <<":", " ", "a", "b">>,
                     description \o <<":", " ", "\"", "a", ":", "\"">>,
                     <<"b", "-">> \o description \o <<":", " ", "a", "b">> } }

DescriptionBlocks ==
    { [descriptions |-> MatchDescriptions(t)] @@ [DefaultBlock EXCEPT !.strings = MatchAll(t)] :
        t \in DescriptionTexts }

RECURSIVE CheckDescriptionsQuotedOrPlain(_, _)
CheckDescriptionsQuotedOrPlain(r, groups) ==
    IF groups = <<>> THEN r
    ELSE CheckDescriptionsQuotedOrPlain(
             IF IsSuspicious(Head(groups)) THEN Error(r, "description") ELSE r,
             Tail(groups))

RECURSIVE CheckDescriptions(_, _)
CheckDescriptions(r, groups) ==
    IF groups = <<>> THEN r
    ELSE CheckDescriptions(
             IF ~IsInsideQuotes(Trim(Head(groups))) THEN Error(r, "description") ELSE r,
             Tail(groups))

DescriptionStage(r, b) ==
    IF ~r.go \/ ~opts.checkDescriptions THEN r
    ELSE CheckDescriptions(Enter(r, "descriptions"), b.descriptions)

\* The iteration of the loop with the description check after the string
\* check.
RunBlockWithDescriptions(b) ==
    PullRequestStage(
      BreakingChangesStage(
        SchemaStage(
          YamlStage(
            PlacementStage(
              DescriptionStage(
                StringStage(
                  MarkdownStage(
                    HtmlStage(NewResult, b), b), b), b), b), b), b), b), b)

-----------------------------------------------------------------------------
(* init and main *)

NoBlock ==
    [seen |-> FALSE, block |-> DefaultBlock,
     result |-> [go |-> FALSE, errors |-> 0, warnings |-> 0, stages |-> <<>>,
                 diags |-> <<>>, thrown |-> FALSE, exit |-> FALSE,
                 index |-> NoIndex, acquired |-> 0]]

\* The state of the library functions before any of them is called.
DirectivesIdle == str = <<>> /\ idx = 0 /\ matches = <<>>
RuleIdle == tokens = <<>> /\ tokenIdx = 0 /\ onError = <<>>
ChunksIdle == filenames = <<>> /\ offset = 0 /\ platform = "linux" /\ chunkedFilenames = <<>>
LibIdle == DirectivesIdle /\ RuleIdle /\ ChunksIdle

\* The state before init runs, the command line and the environment aside.
InitCounters ==
    /\ pc = "init"
    /\ docsTotal = 0
    /\ docIdx = 0
    /\ blocksInDoc = 0
    /\ blockIdx = 0
    /\ located = 0
    /\ documentCounter = 0
    /\ historyBlockCounter = 0
    /\ errorCounter = 0
    /\ warningCounter = 0
    /\ validateAgainstSchema = FALSE
    /\ breakingChangesFileHeadingIds = [set |-> FALSE, ids |-> <<>>]
    /\ allPrReleaseVersions = NoIndex
    /\ acquisitions = 0
    /\ last = NoBlock
    /\ thrown = FALSE
    /\ stdout = <<>>
    /\ exitStatus = -1

Init ==
    /\ opts \in Options
    /\ env \in EnvironmentsOf(opts)
    /\ InitCounters
    /\ tree = Node("root", <<>>, <<>>)
    /\ codeBlocks = <<>>
    /\ markdownBreakingChanges = BreakingChangesDocument
    /\ LibIdle


\* init, up to the call of main: the access() checks and the GH_TOKEN check.
InitFails ==
    \/ opts.schema = "missing"
    \/ opts.breakingChangesFile = "missing"
    \/ opts.checkPullRequestLinks /\ ~env.test /\ ~env.ghToken

InitStart ==
    /\ pc = "init"
    /\ IF InitFails
       THEN pc' = "exited" /\ exitStatus' = 1
       ELSE pc' = "main" /\ UNCHANGED exitStatus
    /\ UNCHANGED <<opts, env, docsTotal, docIdx, blocksInDoc, blockIdx, located,
                   documentCounter, historyBlockCounter, errorCounter, warningCounter,
                   validateAgainstSchema, breakingChangesFileHeadingIds,
                   allPrReleaseVersions, acquisitions, last, thrown, stdout>>
    /\ UNCHANGED <<locatorVars, markdownBreakingChanges, libVars>>

\* main's catch-all handler followed by its finally block.
Caught ==
    /\ errorCounter' = errorCounter + 1
    /\ thrown' = TRUE
    /\ pc' = "returned"


SetupThrowsOnUnreadableOnly(readable) == ~readable

SetupThrows(readable) ==
    \/ opts.schema = "unparsable"
    \/ opts.breakingChangesFile = "unparsable"
    \/ ~readable

\* main, up to the first iteration of the loop over the documents.
MainSetup(maxDocs) ==
    /\ pc = "main"
    /\ \E n \in 0..maxDocs, readable \in BOOLEAN :
         IF SetupThrows(readable)
         THEN /\ Caught
              /\ UNCHANGED <<docsTotal, validateAgainstSchema, breakingChangesFileHeadingIds>>
         ELSE /\ validateAgainstSchema' = (opts.schema = "ok")
              /\ breakingChangesFileHeadingIds' =
                   IF opts.breakingChangesFile = "ok"
                   THEN [set |-> TRUE, ids |-> HeadingIds(markdownBreakingChanges)]
                   ELSE breakingChangesFileHeadingIds
              /\ docsTotal' = n
              /\ pc' = "scan"
              /\ UNCHANGED <<errorCounter, thrown>>
    /\ UNCHANGED <<opts, env, docIdx, blocksInDoc, blockIdx, located,
                   documentCounter, historyBlockCounter, warningCounter,
                   allPrReleaseVersions, acquisitions, last, stdout, exitStatus>>
    /\ UNCHANGED <<locatorVars, markdownBreakingChanges, libVars>>

NextDocumentCountingBlock ==
    /\ pc = "scan"
    /\ blockIdx = blocksInDoc
    /\ docIdx < docsTotal
    /\ docIdx' = docIdx + 1
    /\ documentCounter' = documentCounter + 1
    /\ historyBlockCounter' = historyBlockCounter + 1
    /\ \E n \in 0..MaxBlocks :
         /\ blocksInDoc' = n
         /\ located' = located + n
    /\ blockIdx' = 0
    /\ last' = NoBlock
    /\ UNCHANGED <<pc, opts, env, docsTotal, errorCounter,
                   warningCounter, validateAgainstSchema, breakingChangesFileHeadingIds,
                   allPrReleaseVersions, acquisitions, thrown, stdout, exitStatus>>
    /\ UNCHANGED <<locatorVars, markdownBreakingChanges, libVars>>

\* The head of the loop over the documents, up to findPossibleApiHistoryBlocks.
NextDocument ==
    /\ pc = "scan"
    /\ blockIdx = blocksInDoc
    /\ docIdx < docsTotal
    /\ docIdx' = docIdx + 1
    /\ documentCounter' = documentCounter + 1
    /\ \E n \in 0..MaxBlocks :
         /\ blocksInDoc' = n
         /\ located' = located + n
    /\ blockIdx' = 0
    /\ last' = NoBlock
    /\ UNCHANGED <<pc, opts, env, docsTotal, historyBlockCounter, errorCounter,
                   warningCounter, validateAgainstSchema, breakingChangesFileHeadingIds,
                   allPrReleaseVersions, acquisitions, thrown, stdout, exitStatus>>
    /\ UNCHANGED <<locatorVars, markdownBreakingChanges, libVars>>

IterateCountingExtracted(b, r) ==
    /\ historyBlockCounter' =
         historyBlockCounter + (IF r.stages \in {<<"html">>, <<"html", "markdown">>} THEN 0 ELSE 1)
    /\ blockIdx' = blockIdx + 1
    /\ warningCounter' = warningCounter + r.warnings
    /\ allPrReleaseVersions' = r.index
    /\ acquisitions' = acquisitions + r.acquired
    /\ last' = [seen |-> TRUE, block |-> b, result |-> r]
    /\ errorCounter' = errorCounter + r.errors
    /\ thrown' = r.thrown
    /\ pc' = IF r.thrown THEN "returned" ELSE IF r.exit THEN "exited" ELSE "scan"
    /\ exitStatus' = IF r.exit THEN 1 ELSE exitStatus
    /\ UNCHANGED <<opts, env, docsTotal, docIdx, blocksInDoc, located, documentCounter,
                   validateAgainstSchema, breakingChangesFileHeadingIds, stdout>>
    /\ UNCHANGED <<locatorVars, markdownBreakingChanges, libVars>>

\* What an iteration of the loop over possibleHistoryBlocks that did r for
\* the block b leaves behind.
Iterate(b, r) ==
    /\ historyBlockCounter' = historyBlockCounter + 1
    /\ blockIdx' = blockIdx + 1
    /\ warningCounter' = warningCounter + r.warnings
    /\ allPrReleaseVersions' = r.index
    /\ acquisitions' = acquisitions + r.acquired
    /\ last' = [seen |-> TRUE, block |-> b, result |-> r]
    /\ errorCounter' = errorCounter + r.errors
    /\ thrown' = r.thrown
    /\ pc' = IF r.thrown THEN "returned" ELSE IF r.exit THEN "exited" ELSE "scan"
    /\ exitStatus' = IF r.exit THEN 1 ELSE exitStatus
    /\ UNCHANGED <<opts, env, docsTotal, docIdx, blocksInDoc, located, documentCounter,
                   validateAgainstSchema, breakingChangesFileHeadingIds, stdout>>
    /\ UNCHANGED <<locatorVars, markdownBreakingChanges, libVars>>

\* One iteration of the loop over possibleHistoryBlocks.
ProcessBlock(pool) ==
    /\ pc = "scan"
    /\ blockIdx < blocksInDoc
    /\ \E b \in pool : Iterate(b, RunBlock(b))

\* The loop over the documents ends and main returns its counters.
MainReturn ==
    /\ pc = "scan"
    /\ blockIdx = blocksInDoc
    /\ docIdx = docsTotal
    /\ pc' = "returned"
    /\ last' = NoBlock
    /\ UNCHANGED <<opts, env, docsTotal, docIdx, blocksInDoc, blockIdx, located,
                   documentCounter, historyBlockCounter, errorCounter, warningCounter,
                   validateAgainstSchema, breakingChangesFileHeadingIds,
                   allPrReleaseVersions, acquisitions, thrown, stdout, exitStatus>>
    /\ UNCHANGED <<locatorVars, markdownBreakingChanges, libVars>>


ExitCodeCountingWarnings == IF errorCounter + warningCounter > 0 THEN 1 ELSE 0

ExitCode == IF errorCounter > 0 THEN 1 ELSE 0

InitFinishSilentOnErrors ==
    /\ pc = "returned"
    /\ stdout' = IF errorCounter > 0 THEN stdout
                 ELSE Append(stdout, [blocks |-> historyBlockCounter,
                                      documents |-> documentCounter,
                                      errors |-> errorCounter, warnings |-> warningCounter])
    /\ exitStatus' = ExitCode
    /\ pc' = "exited"
    /\ UNCHANGED <<opts, env, docsTotal, docIdx, blocksInDoc, blockIdx, located,
                   documentCounter, historyBlockCounter, errorCounter, warningCounter,
                   validateAgainstSchema, breakingChangesFileHeadingIds,
                   allPrReleaseVersions, acquisitions, last, thrown>>
    /\ UNCHANGED <<locatorVars, markdownBreakingChanges, libVars>>

\* init, after main has returned: the summary line and the exit status.
InitFinish ==
    /\ pc = "returned"
    /\ stdout' = Append(stdout, [blocks |-> historyBlockCounter, documents |-> documentCounter,
                                 errors |-> errorCounter, warnings |-> warningCounter])
    /\ exitStatus' = ExitCode
    /\ pc' = "exited"
    /\ UNCHANGED <<opts, env, docsTotal, docIdx, blocksInDoc, blockIdx, located,
                   documentCounter, historyBlockCounter, errorCounter, warningCounter,
                   validateAgainstSchema, breakingChangesFileHeadingIds,
                   allPrReleaseVersions, acquisitions, last, thrown>>
    /\ UNCHANGED <<locatorVars, markdownBreakingChanges, libVars>>

\* A run over a corpus of up to MaxDocs documents.
Next ==
    \/ InitStart
    \/ MainSetup(MaxDocs)
    \/ NextDocument
    \/ ProcessBlock(CorpusBlocks)
    \/ MainReturn
    \/ InitFinish

Spec == Init /\ [][Next]_vars

\* A run over a single document, whose blocks are any of Blocks.
NextDocumentRun ==
    \/ InitStart
    \/ MainSetup(1)
    \/ NextDocument
    \/ ProcessBlock(Blocks)
    \/ MainReturn
    \/ InitFinish

SpecDocument == Init /\ [][NextDocumentRun]_vars

\* A run over a single document, whose blocks are valid and differ in their
\* text only.
NextStringsRun ==
    \/ InitStart
    \/ MainSetup(1)
    \/ NextDocument
    \/ ProcessBlock(StringBlocks)
    \/ MainReturn
    \/ InitFinish

SpecStrings == Init /\ [][NextStringsRun]_vars

\* A call of findPossibleApiHistoryBlocks on the tree of a document.
InitLocator ==
    /\ opts = [checkPlacement |-> TRUE, checkPullRequestLinks |-> FALSE, checkStrings |-> TRUE,
               schema |-> "none", breakingChangesFile |-> "none"]
    /\ env \in EnvironmentsOf(opts)
    /\ InitCounters
    /\ tree \in Trees
    /\ codeBlocks = <<>>
    /\ markdownBreakingChanges = BreakingChangesDocument
    /\ LibIdle

FindBlocks ==
    /\ pc = "init"
    /\ codeBlocks' = FindPossibleApiHistoryBlocks(tree)
    /\ pc' = "found"
    /\ UNCHANGED <<opts, env, docsTotal, docIdx, blocksInDoc, blockIdx, located,
                   documentCounter, historyBlockCounter, errorCounter, warningCounter,
                   validateAgainstSchema, breakingChangesFileHeadingIds,
                   allPrReleaseVersions, acquisitions, last, thrown, stdout, exitStatus, tree,
                   markdownBreakingChanges>>
    /\ UNCHANGED libVars

NextLocator == FindBlocks

SpecLocator == InitLocator /\ [][NextLocator]_vars

\* A run over a single document with --breaking-changes-file, whatever the
\* companion document holds.
InitHeadings ==
    /\ opts = [checkPlacement |-> TRUE, checkPullRequestLinks |-> FALSE, checkStrings |-> TRUE,
               schema |-> "ok", breakingChangesFile |-> "ok"]
    /\ env \in EnvironmentsOf(opts)
    /\ InitCounters
    /\ tree = Node("root", <<>>, <<>>)
    /\ codeBlocks = <<>>
    /\ markdownBreakingChanges \in HeadingDocuments
    /\ LibIdle

NextHeadingsRun ==
    \/ InitStart
    \/ MainSetup(1)
    \/ NextDocument
    \/ ProcessBlock(CorpusBlocks)
    \/ MainReturn
    \/ InitFinish

SpecHeadings == InitHeadings /\ [][NextHeadingsRun]_vars

\* The command line with --check-descriptions.
OptionsWithDescriptions ==
    [checkPlacement : BOOLEAN,
     checkPullRequestLinks : {FALSE},
     checkStrings : BOOLEAN,
     checkDescriptions : BOOLEAN,
     schema : FileStates,
     breakingChangesFile : {"none", "ok"}]

InitDescriptions ==
    /\ opts \in OptionsWithDescriptions
    /\ env \in EnvironmentsOf(opts)
    /\ InitCounters
    /\ tree = Node("root", <<>>, <<>>)
    /\ codeBlocks = <<>>
    /\ markdownBreakingChanges = BreakingChangesDocument
    /\ LibIdle

ProcessDescriptionBlock ==
    /\ pc = "scan"
    /\ blockIdx < blocksInDoc
    /\ \E b \in DescriptionBlocks : Iterate(b, RunBlockWithDescriptions(b))

\* A run over a single document with --check-descriptions among the flags.
NextDescriptionsRun ==
    \/ InitStart
    \/ MainSetup(1)
    \/ NextDocument
    \/ ProcessDescriptionBlock
    \/ MainReturn
    \/ InitFinish

SpecDescriptions == InitDescriptions /\ [][NextDescriptionsRun]_vars

-----------------------------------------------------------------------------
(* lib/markdown.ts: findCurlyBracedDirectives *)

\* init and main at rest, while a function of the library runs.
idleVars == <<opts, env, docsTotal, docIdx, blocksInDoc, blockIdx, located,
              documentCounter, historyBlockCounter, errorCounter, warningCounter,
              validateAgainstSchema, breakingChangesFileHeadingIds,
              allPrReleaseVersions, acquisitions, last, thrown, stdout, exitStatus,
              locatorVars, markdownBreakingChanges>>

MainIdle ==
    /\ opts = [checkPlacement |-> TRUE, checkPullRequestLinks |-> FALSE, checkStrings |-> TRUE,
               schema |-> "none", breakingChangesFile |-> "none"]
    /\ env \in EnvironmentsOf(opts)
    /\ InitCounters
    /\ tree = Node("root", <<>>, <<>>)
    /\ codeBlocks = <<>>
    /\ markdownBreakingChanges = BreakingChangesDocument

MaxPieces == 6

directive == <<"d">>

prefix == directive \o <<"=">>

\* The texts scanned: up to MaxPieces pieces, one after the other.
Pieces == { prefix, <<"{">>, <<"}">>, <<" ">>, <<"a">> }

RECURSIVE Flatten(_)
Flatten(pieces) == IF pieces = <<>> THEN <<>> ELSE Head(pieces) \o Flatten(Tail(pieces))

Strs == { Flatten(q) : q \in SeqsUpTo(Pieces, MaxPieces) }

\* s.indexOf(sub, from): positions count from 0, -1 when there is none.
IndexOf(s, sub, from) ==
    LET found == { i \in from..(Len(s) - Len(sub)) : SubSeq(s, i + 1, i + Len(sub)) = sub }
    IN  IF found = {} THEN -1 ELSE CHOOSE i \in found : \A j \in found : i <= j

\* s.slice(begin, end)
Slice(s, begin, end) == SubSeq(s, begin + 1, end)

NoRange == <<>>

NextIndex(ai, bi) == IF ai < bi /\ ai >= 0 THEN ai ELSE bi

\* The loop of range() of balanced-match over the braces of s.
RECURSIVE RangeLoop(_, _, _, _, _, _, _)
RangeLoop(s, begs, ai, bi, i, left, right) ==
    IF i < 0 THEN (IF begs # <<>> THEN <<left, right>> ELSE NoRange)
    ELSE IF i = ai
         THEN LET nextA == IndexOf(s, <<"{">>, i + 1)
              IN  RangeLoop(s, Append(begs, i), nextA, bi, NextIndex(nextA, bi), left, right)
    ELSE IF Len(begs) = 1 THEN <<begs[1], bi>>
    ELSE LET beg == begs[Len(begs)]
             nextB == IndexOf(s, <<"}">>, i + 1)
         IN  RangeLoop(s, SubSeq(begs, 1, Len(begs) - 1), ai, nextB, NextIndex(ai, nextB),
                       IF beg < left THEN beg ELSE left,
                       IF beg < left THEN bi ELSE right)

BalancedRangeToFirstClose(s) ==
    LET ai == IndexOf(s, <<"{">>, 0)
        bi == IndexOf(s, <<"}">>, ai + 1)
    IN  IF ai >= 0 /\ bi > 0 THEN <<ai, bi>> ELSE NoRange

\* balancedRange('{', '}', s)
BalancedRange(s) ==
    LET ai == IndexOf(s, <<"{">>, 0)
        bi == IndexOf(s, <<"}">>, ai + 1)
    IN  IF ai >= 0 /\ bi > 0 THEN RangeLoop(s, <<>>, ai, bi, ai, Len(s), -1) ELSE NoRange

InitDirectives ==
    /\ MainIdle
    /\ str \in Strs
    /\ idx = 0
    /\ matches = <<>>
    /\ RuleIdle
    /\ ChunksIdle

\* One iteration of the while loop of findCurlyBracedDirectives.
ScanDirective ==
    /\ pc = "init"
    /\ idx >= 0 /\ idx < Len(str)
    /\ LET found == IndexOf(str, prefix, idx)
           val == Slice(str, found + Len(prefix), Len(str))
           range == BalancedRange(val)
       IN  IF found >= 0
           THEN /\ idx' = found + Len(prefix)
                /\ matches' = IF range # NoRange
                              THEN Append(matches, Trim(Slice(val, range[1] + 1, range[2])))
                              ELSE matches
           ELSE /\ idx' = found
                /\ UNCHANGED matches
    /\ UNCHANGED <<pc, str, idleVars, ruleVars, chunkVars>>

\* The loop ends and findCurlyBracedDirectives returns matches.
ReturnMatches ==
    /\ pc = "init"
    /\ ~(idx >= 0 /\ idx < Len(str))
    /\ pc' = "done"
    /\ UNCHANGED <<directiveVars, idleVars, ruleVars, chunkVars>>

NextDirectives == ScanDirective \/ ReturnMatches

SpecDirectives == InitDirectives /\ [][NextDirectives]_vars

-----------------------------------------------------------------------------
(* markdownlint-rules/emd004.js: EMD004 *)

MaxInline == 4

\* The types of the children of an inline token.
ChildTypes == {"text", "link_open", "link_close", "softbreak"}

\* params.parsers.markdownit.tokens: a paragraph whose inline token starts
\* on line 1, and a token after it.
TokenLists ==
    { << [type |-> "paragraph_open", lineNumber |-> 1, children |-> <<>>],
         [type |-> "inline", lineNumber |-> 1, children |-> c],
         t >> :
        c \in SeqsUpTo(ChildTypes, MaxInline),
        t \in { [type |-> "paragraph_close", lineNumber |-> 1, children |-> <<>>],
                [type |-> "inline", lineNumber |-> 7,
                 children |-> <<"link_open", "text", "softbreak", "softbreak">>],
                [type |-> "inline", lineNumber |-> 7,
                 children |-> <<"softbreak", "link_open", "link_close", "softbreak", "text">>] } }

RECURSIVE ScanChildrenIgnoringLinkClose(_, _, _)
ScanChildrenIgnoringLinkClose(children, lineNumber, inLink) ==
    IF children = <<>> THEN <<>>
    ELSE IF Head(children) = "link_open"
         THEN ScanChildrenIgnoringLinkClose(Tail(children), lineNumber, TRUE)
    ELSE IF Head(children) = "softbreak"
         THEN IF inLink THEN <<lineNumber>>
              ELSE ScanChildrenIgnoringLinkClose(Tail(children), lineNumber + 1, inLink)
    ELSE ScanChildrenIgnoringLinkClose(Tail(children), lineNumber, inLink)

\* The loop over the children of an inline token: the line numbers it
\* reports.
RECURSIVE ScanChildren(_, _, _)
ScanChildren(children, lineNumber, inLink) ==
    IF children = <<>> THEN <<>>
    ELSE IF Head(children) = "link_open" THEN ScanChildren(Tail(children), lineNumber, TRUE)
    ELSE IF Head(children) = "link_close" THEN ScanChildren(Tail(children), lineNumber, FALSE)
    ELSE IF Head(children) = "softbreak"
         THEN IF inLink THEN <<lineNumber>>
              ELSE ScanChildren(Tail(children), lineNumber + 1, inLink)
    ELSE ScanChildren(Tail(children), lineNumber, inLink)

InitRule ==
    /\ MainIdle
    /\ DirectivesIdle
    /\ tokens \in TokenLists
    /\ tokenIdx = 0
    /\ onError = <<>>
    /\ ChunksIdle

\* The next token of params: the callback runs for an inline token.
VisitToken ==
    /\ pc = "init"
    /\ tokenIdx < Len(tokens)
    /\ tokenIdx' = tokenIdx + 1
    /\ LET token == tokens[tokenIdx + 1]
       IN  onError' = IF token.type = "inline"
                      THEN onError \o ScanChildren(token.children, token.lineNumber, FALSE)
                      ELSE onError
    /\ UNCHANGED <<pc, tokens, idleVars, directiveVars, chunkVars>>

RuleReturns ==
    /\ pc = "init"
    /\ tokenIdx = Len(tokens)
    /\ pc' = "done"
    /\ UNCHANGED <<ruleVars, idleVars, directiveVars, chunkVars>>

NextRule == VisitToken \/ RuleReturns

SpecRule == InitRule /\ [][NextRule]_vars

-----------------------------------------------------------------------------
(* lib/markdown.ts: chunkFilenames *)

MaxFilenames == 3

\* Filenames, of which chunkFilenames reads the length only.
Filenames ==
    [name : {"a", "b"}, length : {1, 1022, 1023, 2047, 51199, 102399}]

MAX_FILENAME_ARGS_LENGTH == IF platform = "win32" THEN 2047 - offset ELSE 100 * 1024

RECURSIVE ChunkLengthWithoutSeparators(_)
ChunkLengthWithoutSeparators(chunk) ==
    IF chunk = <<>> THEN 0
    ELSE ChunkLengthWithoutSeparators(SubSeq(chunk, 1, Len(chunk) - 1)) + chunk[Len(chunk)].length

\* currChunkLength
RECURSIVE ChunkLength(_)
ChunkLength(chunk) ==
    IF chunk = <<>> THEN 0
    ELSE ChunkLength(SubSeq(chunk, 1, Len(chunk) - 1)) + chunk[Len(chunk)].length + 1

\* filenames.reduce(..., [[]])
RECURSIVE ChunkFilenames(_)
ChunkFilenames(names) ==
    IF names = <<>> THEN << <<>> >>
    ELSE LET chunked == ChunkFilenames(SubSeq(names, 1, Len(names) - 1))
             filename == names[Len(names)]
             currChunk == chunked[Len(chunked)]
         IN  IF ChunkLength(currChunk) + filename.length + 1 > MAX_FILENAME_ARGS_LENGTH
             THEN Append(chunked, <<filename>>)
             ELSE [chunked EXCEPT ![Len(chunked)] = Append(currChunk, filename)]

InitChunks ==
    /\ MainIdle
    /\ DirectivesIdle
    /\ RuleIdle
    /\ filenames \in SeqsUpTo(Filenames, MaxFilenames)
    /\ offset \in {0, 1024}
    /\ platform \in {"win32", "linux"}
    /\ chunkedFilenames = <<>>

\* A call of chunkFilenames.
Chunk ==
    /\ pc = "init"
    /\ chunkedFilenames' = ChunkFilenames(filenames)
    /\ pc' = "done"
    /\ UNCHANGED <<filenames, offset, platform, idleVars, directiveVars, ruleVars>>

SpecChunks == InitChunks /\ [][Chunk]_vars

-----------------------------------------------------------------------------
(* Properties *)

Occurrences(seq, x) == Cardinality({i \in 1..Len(seq) : seq[i] = x})

LastStage(r) == r.stages[Len(r.stages)]

SummaryPrinted == stdout # <<>>

\* C1: a run that reaches the end of the scan (the summary line is printed)
\* exits with a non-zero status if and only if the error count is above zero;
\* the warning count has no part in it.
C1_ExitStatusIffErrors ==
    (pc = "exited" /\ SummaryPrinted) => (exitStatus # 0 <=> errorCounter > 0)

C1_Witness ==
    /\ pc = "exited"
    /\ SummaryPrinted
    /\ warningCounter > 0
    /\ errorCounter = 0
    /\ exitStatus = 0

\* The comment of the block has no fenced code node with language "yaml" and
\* metadata "history" as its first Markdown child.
NotHistoryFence(b) ==
    ~ /\ b.mdFirst = "code"
      /\ b.lang # Undefined
      /\ ToLowerCase(b.lang) = yaml
      /\ b.meta # Undefined
      /\ Trim(b.meta) = history

\* C2: a block with a Format Error (its raw text has no comment first, or the
\* comment has no yaml/history fence first) or a YAML Parse Error ends that
\* block only: while blocks or documents remain after it, the loop goes on.
C2_MalformedBlockStopsOnlyThatBlock ==
    (/\ last.seen
     /\ \/ last.block.htmlFirst # "comment"
        \/ NotHistoryFence(last.block)
        \/ Occurrences(last.result.diags, "yaml") > 0
     /\ blockIdx < blocksInDoc \/ docIdx < docsTotal)
    => pc = "scan"

\* C3: when processing a document raises an exception, the error is counted
\* and the documents after it are still counted and validated.
C3_ScanContinuesAfterException ==
    (pc = "exited" /\ SummaryPrinted /\ thrown /\ documentCounter > 0)
    => (errorCounter > 0 /\ documentCounter = docsTotal)

ConfigurationFailure ==
    \/ opts.schema \in {"missing", "unparsable"}
    \/ opts.breakingChangesFile \in {"missing", "unparsable"}

\* C4: with a schema file or breaking-changes file that is missing,
\* unreadable or unparsable, no document is ever scanned (both counters stay
\* 0, also in the summary line) and the process exits with status 1.
C4_ConfigurationFailureBeforeScan ==
    ConfigurationFailure =>
        /\ documentCounter = 0
        /\ historyBlockCounter = 0
        /\ pc # "scan"
        /\ \A i \in 1..Len(stdout) : stdout[i].documents = 0 /\ stdout[i].blocks = 0
        /\ pc = "exited" => exitStatus = 1

C4_Witness ==
    /\ pc = "exited"
    /\ opts.schema = "ok"
    /\ opts.breakingChangesFile = "unparsable"
    /\ SummaryPrinted
    /\ exitStatus = 1

\* C5: a block whose raw text does not parse to a comment node first gets a
\* Format Error (one error counted) and no later stage runs for it.
C5_NonCommentIsFormatError ==
    (last.seen /\ last.block.htmlFirst # "comment")
    => (last.result.errors = 1 /\ last.result.stages = <<"html">>)

\* C6: a block whose comment does not start with a yaml/history fence counts
\* exactly one error, no warning, and none of the string, placement, YAML,
\* schema and cross-reference checks runs for it.
C6_FormatErrorCountsOneAndSkips ==
    (last.seen /\ last.block.htmlFirst = "comment" /\ NotHistoryFence(last.block))
    => /\ last.result.errors = 1
       /\ last.result.warnings = 0
       /\ last.result.stages = <<"html", "markdown">>

C6_Witness ==
    /\ last.seen
    /\ last.block.mdFirst = "code"
    /\ last.block.lang = YAML
    /\ last.block.meta = <<"H", "i", "s", "t", "o", "r", "y">>
    /\ last.result.diags = <<"format">>
    /\ opts.checkStrings /\ opts.checkPlacement /\ opts.schema = "ok"

\* C7: when the YAML decoder raises, exactly one error is counted for it and
\* neither the schema validation nor a cross-reference runs for the block.
C7_ParseErrorCountsOneAndSkips ==
    (last.seen /\ last.block.yamlThrows /\ Occurrences(last.result.stages, "yaml") > 0)
    => /\ Occurrences(last.result.diags, "yaml") = 1
       /\ last.result.errors = 1
       /\ LastStage(last.result) = "yaml"

C7_Witness ==
    /\ last.seen
    /\ last.block.yamlThrows
    /\ LastStage(last.result) = "yaml"
    /\ last.result.errors = 1
    /\ opts.schema = "ok"
    /\ opts.breakingChangesFile = "ok"
    /\ opts.checkPullRequestLinks

PlacementError == last.seen /\ Occurrences(last.result.diags, "placement") > 0
SchemaError == last.seen /\ Occurrences(last.result.diags, "schema") > 0

Decoded ==
    /\ last.seen
    /\ Occurrences(last.result.stages, "yaml") > 0
    /\ ~last.block.yamlThrows

WellFormed ==
    /\ last.seen
    /\ last.block.htmlFirst = "comment"
    /\ ~NotHistoryFence(last.block)

\* C10: with the placement check on, a well-formed block whose previous node
\* is absent or not a heading counts exactly one error, the placement error;
\* one whose previous node is a heading gets no placement error; with the
\* check off no block gets one.
C10_PlacementCheck ==
    WellFormed =>
        /\ (opts.checkPlacement /\ last.block.previousNode # "heading")
             => /\ Occurrences(last.result.diags, "placement") = 1
                /\ last.result.errors = 1
        /\ (opts.checkPlacement /\ last.block.previousNode = "heading")
             => Occurrences(last.result.diags, "placement") = 0
        /\ ~opts.checkPlacement => Occurrences(last.result.diags, "placement") = 0

C10_Witness ==
    /\ WellFormed
    /\ opts.checkPlacement
    /\ last.block.previousNode = "paragraph"
    /\ last.result.diags = <<"string", "placement">>

\* The block passed the schema validation with a breaking-changes file
\* configured, so the breaking-changes cross-reference ran for it.
HeadersCrossReferenced ==
    /\ last.seen
    /\ opts.breakingChangesFile = "ok"
    /\ last.block.schemaValid
    /\ Occurrences(last.result.stages, "schema") > 0

BreakingErrors == Occurrences(last.result.diags, "breaking")

ChangesAndDeprecations == last.block.history.changes \o last.block.history.deprecated

NotInIndex(header) ==
    \A i \in 1..Len(breakingChangesFileHeadingIds.ids) :
        breakingChangesFileHeadingIds.ids[i] # header

\* C11 as stated: the errors of the breaking-changes cross-reference are as
\* many as the entries of `changes` and `deprecated` that have a header value
\* which is not in the index, whatever that value is.
C11_MissingHeadersCounted ==
    HeadersCrossReferenced =>
        BreakingErrors =
            Cardinality({i \in 1..Len(ChangesAndDeprecations) :
                            /\ ChangesAndDeprecations[i].header # Undefined
                            /\ NotInIndex(ChangesAndDeprecations[i].header)})

\* C11 amended: the errors of the breaking-changes cross-reference are as
\* many as the entries of `changes` and `deprecated` whose header is a
\* non-empty string that is not, verbatim, in the index; an entry with an
\* empty header, and every entry of `added`, adds none.
C11_NonEmptyMissingHeadersCounted ==
    HeadersCrossReferenced =>
        BreakingErrors =
            Cardinality({i \in 1..Len(ChangesAndDeprecations) :
                            /\ ChangesAndDeprecations[i].header # Undefined
                            /\ ChangesAndDeprecations[i].header # <<>>
                            /\ NotInIndex(ChangesAndDeprecations[i].header)})

C11_Witness ==
    /\ HeadersCrossReferenced
    /\ last.block.history.changes = <<Change(Pr22533, <<>>)>>
    /\ last.block.history.deprecated = <<Change(Pr1337, HeaderMissing)>>
    /\ BreakingErrors = 1

PrWarnings == Occurrences(last.result.diags, "pr")

AddedChangesAndDeprecations ==
    last.block.history.added \o last.block.history.changes \o last.block.history.deprecated

\* The entries of the block's history whose pull request number is not a key
\* of the given index.
UnreleasedEntries(keys) ==
    {i \in 1..Len(AddedChangesAndDeprecations) :
        LET url == AddedChangesAndDeprecations[i].prUrl
        IN  Number(url[Len(url)]) \notin keys}

StringsChecked == last.seen /\ Occurrences(last.result.stages, "strings") > 0

StringWarnings == Occurrences(last.result.diags, "string")

Quoted(t) == \E q \in {"\"", "'"} : t[1] = q /\ t[Len(t)] = q

Special(c) == c # "." /\ c \notin Digits /\ c \notin LowerCase /\ c \notin UpperCase

\* C13: with --check-strings set, the warnings of the string check are as
\* many as the matches whose trimmed value is not wrapped in one kind of
\* quote and whose first or last character is neither alphanumeric nor a dot;
\* the check counts no error, and with the flag off it reports nothing.
C13_StringCheckWarnsOnSpecialEnds ==
    /\ StringsChecked =>
         /\ opts.checkStrings
         /\ StringWarnings =
              Cardinality({i \in 1..Len(last.block.strings) :
                              LET t == Trim(last.block.strings[i])
                              IN  ~Quoted(t) /\ (Special(t[1]) \/ Special(t[Len(t)]))})
         /\ last.result.warnings = StringWarnings + PrWarnings
         /\ last.result.errors = 0
    /\ (last.seen /\ ~opts.checkStrings) => StringWarnings = 0
    /\ (last.seen /\ opts.checkStrings) => StringsChecked

C13_Witness ==
    /\ StringsChecked
    /\ last.block.strings = << <<"a", "b", ":">>, <<"\"", "$", "\"">> >>
    /\ StringWarnings = 1
    /\ last.result.errors = 0

DescriptionErrors == Occurrences(last.result.diags, "description")

DescriptionsChecked == last.seen /\ Occurrences(last.result.stages, "descriptions") > 0

C15_NoBlocksNoErrors ==
    (located = 0 /\ ~thrown) =>
        /\ historyBlockCounter = 0
        /\ errorCounter = 0
        /\ \A i \in 1..Len(stdout) : stdout[i].blocks = 0 /\ stdout[i].errors = 0
        /\ (pc = "exited" /\ SummaryPrinted) => exitStatus = 0

C15_Witness ==
    /\ pc = "exited"
    /\ SummaryPrinted
    /\ located = 0
    /\ documentCounter = MaxDocs
    /\ stdout[1].blocks = 0 /\ stdout[1].errors = 0
    /\ opts.checkPlacement /\ opts.checkStrings /\ opts.checkPullRequestLinks
    /\ opts.schema = "ok" /\ opts.breakingChangesFile = "ok"

\* The latest block is well-formed, decodes, matches the schema, follows a
\* heading, has no suspicious unquoted value, and every header and pull
\* request it names is in the index the run holds.
CleanBlock ==
    /\ WellFormed
    /\ ~last.block.yamlThrows
    /\ last.block.schemaValid
    /\ last.block.previousNode = "heading"
    /\ \A i \in 1..Len(last.block.strings) :
         LET t == Trim(last.block.strings[i])
         IN  Quoted(t) \/ (~Special(t[1]) /\ ~Special(t[Len(t)]))
    /\ \A i \in 1..Len(ChangesAndDeprecations) :
         \/ ChangesAndDeprecations[i].header \in {Undefined, <<>>}
         \/ ~NotInIndex(ChangesAndDeprecations[i].header)
    /\ opts.checkPullRequestLinks =>
         (allPrReleaseVersions.set /\ UnreleasedEntries(allPrReleaseVersions.keys) = {})

EveryCheckEnabled ==
    /\ opts.checkPlacement
    /\ opts.checkStrings
    /\ opts.checkPullRequestLinks
    /\ opts.schema = "ok"
    /\ opts.breakingChangesFile = "ok"

\* C16: an iteration of the block loop over a clean block adds 1 to the
\* block count and nothing to the error and warning counts, with every check
\* enabled (and with any of them disabled).
C16_CleanBlockCountsNothing ==
    [][(blockIdx' = blockIdx + 1 /\ CleanBlock')
       => /\ historyBlockCounter' = historyBlockCounter + 1
          /\ errorCounter' = errorCounter
          /\ warningCounter' = warningCounter
          /\ pc' = "scan"]_vars

C16_Witness ==
    /\ CleanBlock
    /\ EveryCheckEnabled
    /\ last.block.history.changes = <<Change(Pr22533, HeaderKnown)>>
    /\ last.result.stages = <<"html", "markdown", "strings", "placement", "yaml", "schema",
                               "breaking", "pr">>
    /\ last.result.diags = <<>>
    /\ historyBlockCounter = 2

\* C17: when the chain runs over a block a second time, right after the
\* first, in the same run (same configuration, same indexes, the pull
\* request index now memoized), it counts the same errors and warnings and
\* reports the same diagnostics in the same order as the first time.
C17_SecondPassSameResult ==
    [][(blockIdx' = blockIdx + 1 /\ last.seen /\ last'.block = last.block)
       => /\ last'.result.errors = last.result.errors
          /\ last'.result.warnings = last.result.warnings
          /\ last'.result.diags = last.result.diags
          /\ last'.result.stages = last.result.stages
          /\ allPrReleaseVersions' = allPrReleaseVersions]_vars

\* A second block of a document went through the pull request check on the
\* memoized index, which holds the pull request of the CI variables.
C17_Witness ==
    /\ last.seen
    /\ blockIdx = 2
    /\ acquisitions = 1
    /\ last.result.acquired = 0
    /\ env.ciPrNumber = Number(CiPr)
    /\ last.block.history.changes = <<Change(Pr40, HeaderMissing)>>
    /\ last.result.diags = <<"breaking", "breaking">>

\* The run went through every document and block and printed its summary.
CompleteRun == pc = "exited" /\ SummaryPrinted /\ ~thrown

WarningsReported(r) == Occurrences(r.diags, "string") + Occurrences(r.diags, "pr")

ErrorsReported(r) == Len(r.diags) - WarningsReported(r)

\* C18: after a complete run the document total is the number of documents,
\* the block total the number of candidate blocks located in them, and the
\* summary line shows the four totals; each iteration of the block loop adds
\* 1 to the block total (whatever becomes of the block) and the errors and
\* warnings reported for its block to the error and warning totals; no other
\* step changes the block and warning totals, or the error total unless it
\* is the catch-all handler; no total ever decreases.
C18_TotalsAreSums ==
    /\ [](CompleteRun =>
            /\ documentCounter = docsTotal
            /\ historyBlockCounter = located
            /\ stdout = <<[blocks |-> historyBlockCounter, documents |-> documentCounter,
                           errors |-> errorCounter, warnings |-> warningCounter]>>)
    /\ [][IF blockIdx' = blockIdx + 1
          THEN /\ historyBlockCounter' = historyBlockCounter + 1
               /\ errorCounter' = errorCounter + ErrorsReported(last'.result)
               /\ warningCounter' = warningCounter + WarningsReported(last'.result)
               /\ documentCounter' = documentCounter
          ELSE /\ historyBlockCounter' = historyBlockCounter
               /\ warningCounter' = warningCounter
               /\ errorCounter' = errorCounter \/ (thrown' /\ errorCounter' = errorCounter + 1)
               /\ documentCounter' \in {documentCounter, documentCounter + 1}]_vars
    /\ [][/\ documentCounter' >= documentCounter
          /\ historyBlockCounter' >= historyBlockCounter
          /\ errorCounter' >= errorCounter
          /\ warningCounter' >= warningCounter]_vars

C18_Witness ==
    /\ CompleteRun
    /\ documentCounter = 2
    /\ historyBlockCounter = 3
    /\ located = 3
    /\ errorCounter = 2
    /\ warningCounter = 1

\* The node before each qualifying node among the children of that node's
\* own parent (NoNode for a first child), in document order.
RECURSIVE SiblingBeforeNode(_, _, _)
RECURSIVE SiblingsBeforeChildren(_, _)
SiblingBeforeNode(parent, node, i) ==
    (IF IsPossibleHistoryBlock(node) THEN <<At(parent.children, i - 1)>> ELSE <<>>)
    \o SiblingsBeforeChildren(node, 1)

SiblingsBeforeChildren(parent, i) ==
    IF i > Len(parent.children) THEN <<>>
    ELSE SiblingBeforeNode(parent, parent.children[i], i) \o SiblingsBeforeChildren(parent, i + 1)

\* C19: the previous node recorded for a qualifying node, at any depth of
\* the tree, is the node right before it among its own parent's children,
\* and is absent for a first child.
C19_PreviousNodeIsSiblingBefore ==
    pc = "found" =>
        /\ Len(codeBlocks) = Len(SiblingsBeforeChildren(tree, 1))
        /\ \A k \in 1..Len(codeBlocks) :
             codeBlocks[k].previousNode = SiblingsBeforeChildren(tree, 1)[k]

\* The nodes of a tree in document order.
RECURSIVE DocumentOrder(_)
DocumentOrder(children) ==
    IF children = <<>> THEN <<>>
    ELSE <<Head(children)>> \o DocumentOrder(Head(children).children)
         \o DocumentOrder(Tail(children))

Candidate(node) ==
    /\ node.type = "html"
    /\ \A sub \in {fence, yaml, history} : StringIncludes(ToLowerCase(node.value), sub)

Texts(nodes) == [k \in 1..Len(nodes) |-> <<nodes[k].type, nodes[k].value>>]

\* C20: findPossibleApiHistoryBlocks returns the html nodes of the tree whose
\* lower-cased text contains a fence marker, "yaml" and "history", all of
\* them and no other node, in document order.
C20_LocatorReturnsCandidatesInOrder ==
    pc = "found" =>
        Texts(codeBlocks) = Texts(SelectSeq(DocumentOrder(tree.children), Candidate))

C20_Witness ==
    /\ pc = "found"
    /\ Len(tree.children) = 2
    /\ tree.children[1].type = "list"
    /\ tree.children[2] = Node("html", UpperYamlHistory, <<>>)
    /\ Texts(codeBlocks) = << <<"html", YmlHistoryAfterYaml>>, <<"html", UpperYamlHistory>> >>

\* The fence of a block: a code node whose language is "yaml" in any case.
YamlFence == last.block.mdFirst = "code" /\ OptionalLower(last.block.lang) = yaml

FormatErrors == Occurrences(last.result.diags, "format")

\* C21 (as stated): the fence metadata is compared case-insensitively after
\* trimming: a block whose yaml fence carries the metadata "History" or
\* "HISTORY" gets no Format Error, like one that carries "history".
C21_MetaComparedIgnoringCase ==
    (/\ last.seen
     /\ last.block.htmlFirst = "comment"
     /\ YamlFence
     /\ OptionalLower(OptionalTrim(last.block.meta)) = history)
    => FormatErrors = 0

\* C21 (amended): the fence metadata is compared case-sensitively after
\* trimming: a block with a yaml fence (the language in any case) gets a
\* Format Error exactly when its trimmed metadata is not "history" in lower
\* case, so "History" and "HISTORY" are rejected and "history " is accepted.
C21_MetaComparedCaseSensitively ==
    (last.seen /\ last.block.htmlFirst = "comment" /\ YamlFence)
    => /\ FormatErrors = (IF OptionalTrim(last.block.meta) = history THEN 0 ELSE 1)
       /\ FormatErrors = 1 => last.result.stages = <<"html", "markdown">>

C21_Witness ==
    /\ last.seen
    /\ last.block.htmlFirst = "comment"
    /\ last.block.lang = YAML
    /\ last.block.meta = <<"H", "I", "S", "T", "O", "R", "Y">>
    /\ FormatErrors = 1
    /\ last.result.errors = 1

\* The latest iteration reached the pull-request cross-reference.
ReachedPrCheck(l) == l.seen /\ Occurrences(l.result.stages, "pr") = 1

\* C22: in one run the index of released pull requests is acquired at most
\* once; it is acquired only by an iteration that reaches the pull-request
\* cross-reference (so never with --check-pull-request-links off, and never
\* when no block reaches that check), and once it is held every later
\* iteration leaves it as it is and reads that very index.
C22_IndexAcquiredOnceOnDemand ==
    /\ [](/\ acquisitions <= 1
          /\ allPrReleaseVersions.set <=> acquisitions = 1
          /\ ~opts.checkPullRequestLinks => acquisitions = 0)
    /\ [][/\ acquisitions' # acquisitions
             => /\ acquisitions = 0
                /\ ReachedPrCheck(last')
                /\ opts.checkPullRequestLinks
          /\ allPrReleaseVersions.set
             => /\ allPrReleaseVersions' = allPrReleaseVersions
                /\ ReachedPrCheck(last')
                   => /\ last'.result.index = allPrReleaseVersions
                      /\ last'.result.acquired = 0]_vars

C22_Witness ==
    /\ acquisitions = 1
    /\ docIdx = 2
    /\ historyBlockCounter >= 3
    /\ ReachedPrCheck(last)
    /\ last.result.acquired = 0
    /\ last.result.index = allPrReleaseVersions
    /\ ~env.test

\* The top-level headings of depth 3 of the companion document, in order.
LevelThreeHeadings ==
    SelectSeq(markdownBreakingChanges, LAMBDA n : n.type = "heading" /\ n.depth = 3)

\* The text of a heading: the values of its children, one after the other.
RECURSIVE HeadingText(_)
HeadingText(values) ==
    IF values = <<>> THEN <<>> ELSE Head(values) \o HeadingText(Tail(values))

\* A text in lower case with a hyphen for every space, without the
\* characters that are no letter, digit or hyphen.
Slug(text) ==
    LET hyphenated == [i \in 1..Len(text) |->
                         IF text[i] = " " THEN "-"
                         ELSE IF text[i] \in UpperCase THEN UpperToLower[text[i]]
                         ELSE text[i]]
    IN  SelectSeq(hyphenated, LAMBDA c : c \in LowerCase \cup Digits \cup {"-"})

\* C23: the index of heading ids holds one id for each top-level heading of
\* depth 3 of the companion document, in order, and none for a heading of
\* another depth; each id is the slug of the heading's text.  The index is
\* set before the first document is scanned and never changes afterwards.
C23_IndexIsSlugsOfLevelThreeHeadings ==
    /\ [](breakingChangesFileHeadingIds.set
          => /\ Len(breakingChangesFileHeadingIds.ids) = Len(LevelThreeHeadings)
             /\ \A i \in 1..Len(LevelThreeHeadings) :
                  breakingChangesFileHeadingIds.ids[i]
                    = Slug(HeadingText(LevelThreeHeadings[i].children)))
    /\ [](pc = "scan" => breakingChangesFileHeadingIds.set = (opts.breakingChangesFile = "ok"))
    /\ [][breakingChangesFileHeadingIds' # breakingChangesFileHeadingIds
          => /\ pc = "main"
             /\ documentCounter = 0
             /\ ~breakingChangesFileHeadingIds.set]_vars

C23_Witness ==
    /\ pc = "scan"
    /\ documentCounter = 1
    /\ last.seen
    /\ markdownBreakingChanges
         = << Heading(2, << <<"d", "-", "b">> >>),
              Heading(3, << <<"D", ":", " ">>, <<"B", ".", "1">> >>) >>
    /\ breakingChangesFileHeadingIds = [set |-> TRUE, ids |-> << <<"d", "-", "b", "1">> >>]

Position(seq, x) == CHOOSE i \in 1..Len(seq) : seq[i] = x

\* The capture groups of a block's text that the string check warns of.
SuspiciousStrings(b) == Cardinality({i \in 1..Len(b.strings) : IsSuspicious(b.strings[i])})

\* The iteration ended with a Placement Error or a YAML Parse Error.
PlacementOrParseError(r) ==
    Occurrences(r.diags, "placement") + Occurrences(r.diags, "yaml") = 1

\* C24: with --check-strings, the string check of a block runs before its
\* placement check and before its YAML is decoded, and an iteration that
\* ends with a Placement Error or a YAML Parse Error still adds the warnings
\* of the string check to the warning count, next to its one error.
C24_StringWarningsSurviveLaterErrors ==
    /\ []((last.seen /\ Occurrences(last.result.stages, "strings") = 1)
          => /\ Occurrences(last.result.stages, "placement") = 1
                => Position(last.result.stages, "strings")
                     < Position(last.result.stages, "placement")
             /\ Occurrences(last.result.stages, "yaml") = 1
                => Position(last.result.stages, "strings")
                     < Position(last.result.stages, "yaml"))
    /\ [][(/\ last'.seen
           /\ opts.checkStrings
           /\ last'.block.htmlFirst = "comment"
           /\ ~NotHistoryFence(last'.block)
           /\ PlacementOrParseError(last'.result))
          => /\ warningCounter' = warningCounter + SuspiciousStrings(last'.block)
             /\ errorCounter' = errorCounter + 1]_vars

C24_Witness ==
    /\ last.seen
    /\ last.block.yamlThrows
    /\ last.result.diags = <<"string", "yaml">>
    /\ last.result.stages = <<"html", "markdown", "strings", "placement", "yaml">>
    /\ warningCounter = 1
    /\ errorCounter = 1

\* main was called: init passed its checks of the command line.
MainCalled == pc # "init" /\ ~InitFails

\* The run was ended by process.exit in getAllPrReleaseVersions.
AcquisitionFailed == last.seen /\ last.result.exit

Counted == errorCounter + warningCounter

\* Every count of an error or a warning comes with its diagnostic, in the
\* step that counts it: the diagnostics of the iteration, or the report of
\* main's catch-all handler.
DiagnosticsAtOnce ==
    [][Counted' - Counted =
         IF historyBlockCounter' # historyBlockCounter THEN Len(last'.result.diags)
         ELSE IF thrown' /\ ~thrown THEN 1
         ELSE 0]_vars

\* The summary is written by the step that decides the exit status, from the
\* final counters, and nothing is counted after it.
SummaryLast ==
    /\ [][stdout' # stdout
          => /\ stdout = <<>>
             /\ exitStatus = -1
             /\ exitStatus' # -1
             /\ Len(stdout') = 1]_vars
    /\ [](SummaryPrinted
          => stdout[1] = [blocks |-> historyBlockCounter, documents |-> documentCounter,
                          errors |-> errorCounter, warnings |-> warningCounter])

Balanced(t) ==
    LET opens(k) == Cardinality({i \in 1..k : t[i] = "{"})
        closes(k) == Cardinality({i \in 1..k : t[i] = "}"})
    IN  /\ \A k \in 1..Len(t) : closes(k) <= opens(k)
        /\ closes(Len(t)) = opens(Len(t))

\* s[i] opens a group that s[j] closes.
Group(s, i, j) ==
    i < j /\ s[i] = "{" /\ s[j] = "}" /\ Balanced(SubSeq(s, i + 1, j - 1))

HasGroup(s) == \E i, j \in 1..Len(s) : Group(s, i, j)

\* The text inside the first group of s, trimmed.
FirstGroupText(s) ==
    LET i == CHOOSE i \in 1..Len(s) :
               /\ \E j \in 1..Len(s) : Group(s, i, j)
               /\ \A k \in 1..(i - 1) : ~\E j \in 1..Len(s) : Group(s, k, j)
        j == CHOOSE j \in 1..Len(s) : Group(s, i, j)
    IN  Trim(SubSeq(s, i + 1, j - 1))

\* The rest of str after an occurrence of the prefix at position p.
AfterPrefix(p) == SubSeq(str, p + Len(prefix), Len(str))

\* The positions of the occurrences of the prefix that a group follows.
FollowedOccurrences ==
    SelectSeq([p \in 1..Len(str) |-> p],
              LAMBDA p : /\ p + Len(prefix) - 1 <= Len(str)
                         /\ SubSeq(str, p, p + Len(prefix) - 1) = prefix
                         /\ HasGroup(AfterPrefix(p)))

\* C26: findCurlyBracedDirectives returns, for the occurrences of
\* "<directive>=" in str in order, the trimmed text inside the first balanced
\* group of braces after the occurrence, nested braces included, and the
\* empty array when the directive does not occur; every iteration of its
\* loop moves idx forward within str or sets it to -1, which ends the loop,
\* so the loop ends after at most Len(str) iterations.
C26_DirectivesInOrderAndLoopEnds ==
    /\ [](pc = "done"
          => /\ Len(matches) = Len(FollowedOccurrences)
             /\ \A k \in 1..Len(matches) :
                  matches[k] = FirstGroupText(AfterPrefix(FollowedOccurrences[k]))
             /\ IndexOf(str, prefix, 0) = -1 => matches = <<>>)
    /\ [][pc = "init" /\ pc' = "init"
          => (idx' = -1 \/ (idx < idx' /\ idx' <= Len(str)))]_vars
    /\ [](pc = "done" => (idx = -1 \/ idx = Len(str)))

C26_Witness ==
    /\ pc = "done"
    /\ str = <<"d", "=", "{", " ", "{", "}", "}">>
    /\ matches = << <<"{", "}">> >>

StageErrorKinds == {"format", "placement", "yaml", "schema"}

\* The Format, Placement, Parse and Schema errors of the latest iteration.
StageErrors ==
    Cardinality({i \in 1..Len(last.result.diags) : last.result.diags[i] \in StageErrorKinds})

\* C27: an iteration counts at most one of the Format, Placement, Parse and
\* Schema errors, and the one it counts is its only error and ends it: the
\* stage that reports it is the last to run; an iteration that counts more
\* than one error counts errors of the breaking-changes cross-reference only.
C27_AtMostOneStageError ==
    last.seen
    => /\ StageErrors <= 1
       /\ StageErrors = 1
          => /\ last.result.errors = 1
             /\ last.result.diags[Len(last.result.diags)] \in StageErrorKinds
             /\ LastStage(last.result) \in {"markdown", "placement", "yaml", "schema"}
             /\ ~last.result.go
       /\ last.result.errors > 1
          => Occurrences(last.result.diags, "breaking") = last.result.errors

C27_Witness ==
    /\ last.seen
    /\ last.result.errors = 2
    /\ Occurrences(last.result.diags, "breaking") = 2
    /\ errorCounter = 2

\* C28: when the index of released pull requests cannot be acquired for a
\* block that reaches the pull-request cross-reference, the process exits at
\* once with status 1: the iteration counts no error for the failure (only
\* the errors it reported before), nothing runs afterwards, and no summary
\* line is written.
C28_AcquisitionFailureExitsAtOnce ==
    /\ []((last.seen /\ last.result.exit)
          => /\ pc = "exited"
             /\ exitStatus = 1
             /\ stdout = <<>>
             /\ ~thrown
             /\ ~allPrReleaseVersions.set
             /\ LastStage(last.result) = "pr")
    /\ [][(last'.seen /\ last'.result.exit)
          => /\ ~(last.seen /\ last.result.exit)
             /\ errorCounter' = errorCounter + Occurrences(last'.result.diags, "breaking")
             /\ Occurrences(last'.result.diags, "linting") = 0
             /\ Occurrences(last'.result.diags, "pr") = 0]_vars
    /\ []((last.seen /\ LastStage(last.result) = "pr" /\ ~allPrReleaseVersions.set)
          => last.result.exit)
    /\ [][pc # "exited"]_vars

C28_Witness ==
    /\ last.seen
    /\ last.result.exit
    /\ ~env.fetchOk
    /\ errorCounter > 0
    /\ docIdx < docsTotal
    /\ blockIdx < blocksInDoc
    /\ exitStatus = 1

\* The softbreak children of an inline token that lie inside a link: a
\* link_open comes before them with no link_close in between.
BreaksInLink(children) ==
    { k \in 1..Len(children) :
        /\ children[k] = "softbreak"
        /\ \E o \in 1..(k - 1) :
             /\ children[o] = "link_open"
             /\ \A m \in (o + 1)..(k - 1) : children[m] # "link_close" }

FirstOf(S) == CHOOSE k \in S : \A m \in S : k <= m

BreaksBefore(children, k) == Cardinality({m \in 1..(k - 1) : children[m] = "softbreak"})

\* C29: the visit of an inline token reports an error exactly when one of
\* its softbreak children lies inside a link, reports one error at most, and
\* reports it for the line of the token plus the number of the softbreak
\* children before the first such softbreak; the visit of any other token
\* reports nothing.
C29_OneErrorPerTokenWithBreakInLink ==
    [][tokenIdx' = tokenIdx + 1
       => LET token == tokens[tokenIdx']
              inLink == BreaksInLink(token.children)
          IN  IF token.type = "inline" /\ inLink # {}
              THEN onError' = Append(onError,
                                     token.lineNumber
                                       + BreaksBefore(token.children, FirstOf(inLink)))
              ELSE onError' = onError]_vars

C29_Witness ==
    /\ pc = "done"
    /\ tokens[2].children = <<"softbreak", "link_open", "text", "softbreak">>
    /\ tokens[3].children = <<"link_open", "text", "softbreak", "softbreak">>
    /\ onError = <<2, 7>>

\* The filenames of the chunks, one chunk after the other.
RECURSIVE Concatenated(_)
Concatenated(chunks) ==
    IF chunks = <<>> THEN <<>> ELSE Head(chunks) \o Concatenated(Tail(chunks))

RECURSIVE ArgsLength(_)
ArgsLength(chunk) ==
    IF chunk = <<>> THEN 0 ELSE Head(chunk).length + 1 + ArgsLength(Tail(chunk))

\* C30: the chunks chunkFilenames returns, one after the other, are the
\* list of filenames it was given, and every chunk of more than one filename
\* has a length (each filename's length plus one, summed) within the limit
\* of the platform.
C30_ChunksKeepFilenamesAndLimit ==
    pc = "done"
    => /\ Concatenated(chunkedFilenames) = filenames
       /\ \A i \in 1..Len(chunkedFilenames) :
            Len(chunkedFilenames[i]) > 1
            => ArgsLength(chunkedFilenames[i]) <= MAX_FILENAME_ARGS_LENGTH

C30_Witness ==
    /\ pc = "done"
    /\ platform = "win32"
    /\ offset = 0
    /\ Len(filenames) = 3
    /\ Len(chunkedFilenames) = 2
    /\ Len(chunkedFilenames[1]) = 2
    /\ ArgsLength(chunkedFilenames[1]) = 2047

====
